---------------------------- MODULE Spec2Model ----------------------------
(***************************************************************************)
(* Model of the Transaction Reconciliation Tool (src/script.js, class       *)
(* ReconciliationTool): the reconciliation engine, reconcileTransactions,   *)
(* and the page around it: parseCSV, processReconciliation, exportCategory. *)
(*                                                                         *)
(* A JavaScript string is a sequence of one-character strings, so that     *)
(* trim(), toLowerCase() and parseFloat() are computed character by        *)
(* character.  A row is a function from the column names it has to such    *)
(* strings: a column that is not in its DOMAIN reads as undefined.         *)
(* A Number is an IEEE-754 double: sign, integer mantissa of at most 53    *)
(* bits (a sequence of bits, least significant first) and a binary         *)
(* exponent; NaN is a value of its own.                                    *)
(***************************************************************************)
EXTENDS Integers, Sequences, FiniteSets, TLC

VARIABLES
    internalData,   \* the internal rows: the first argument of the call
    providerData,   \* the provider rows: the second argument of the call
    internalMap,    \* the internal index, as the last call left it
    providerMap,    \* the provider index, as the last call left it
    results,        \* what the last call returned
    pc,             \* "ready": the rows are there; "returned": the call is over;
                    \* "threw": the call ended in an error; "none": the page
                    \* has made no call yet
    first,          \* history: the arguments and the result of the first call,
                    \* and whether a call on other arguments came after it
    runs,           \* the runs of processReconciliation that are under way:
                    \* where each is, and its constants
    page,           \* the sections of the page and the reconcile button
    currentResults, \* this.currentResults
    last            \* history: whether the last step called
                    \* reconcileTransactions, showed an alert, made a download

engineVars == <<internalData, providerData, internalMap, providerMap, results, pc, first>>

pageVars == <<runs, page, currentResults, last>>

vars == <<internalData, providerData, internalMap, providerMap, results, pc, first,
          runs, page, currentResults, last>>

-----------------------------------------------------------------------------
(* Strings                                                                 *)

\* The characters String.prototype.trim and parseFloat skip (of the alphabet used).
WhiteSpace == {" ", "\t"}

Upper == <<"A", "B", "C", "D", "E", "F", "G", "H", "I", "J", "K", "L", "M",
           "N", "O", "P", "Q", "R", "S", "T", "U", "V", "W", "X", "Y", "Z">>

Lower == <<"a", "b", "c", "d", "e", "f", "g", "h", "i", "j", "k", "l", "m",
           "n", "o", "p", "q", "r", "s", "t", "u", "v", "w", "x", "y", "z">>

Digits == <<"0", "1", "2", "3", "4", "5", "6", "7", "8", "9">>

IsDigit(c) == \E i \in DOMAIN Digits : Digits[i] = c

DigitVal(c) == (CHOOSE i \in DOMAIN Digits : Digits[i] = c) - 1

LowerChar(c) ==
    IF \E i \in DOMAIN Upper : Upper[i] = c
    THEN Lower[CHOOSE i \in DOMAIN Upper : Upper[i] = c]
    ELSE c

\* String.prototype.toLowerCase
toLowerCase(s) == [i \in DOMAIN s |-> LowerChar(s[i])]

RECURSIVE TrimStart(_)
TrimStart(s) ==
    IF s # <<>> /\ Head(s) \in WhiteSpace THEN TrimStart(Tail(s)) ELSE s

RECURSIVE TrimEnd(_)
TrimEnd(s) ==
    IF s # <<>> /\ s[Len(s)] \in WhiteSpace
    THEN TrimEnd(SubSeq(s, 1, Len(s) - 1))
    ELSE s

\* String.prototype.trim
trim(s) == TrimEnd(TrimStart(s))

-----------------------------------------------------------------------------
(* Natural numbers of any size, as sequences of bits, least significant    *)
(* first, without leading (high) zero bits.  They carry the mantissas of   *)
(* the doubles and the exact intermediate results of double arithmetic.    *)
(* Sums and quotients are computed on limbs of 15 bits, so that every      *)
(* intermediate value stays below 2^31.                                    *)

Max(a, b) == IF a >= b THEN a ELSE b

Min(a, b) == IF a <= b THEN a ELSE b

LimbBase == 2 ^ 15

\* drop the high zero bits
Norm(b) ==
    SubSeq(b, 1, CHOOSE i \in 0..Len(b) :
                    (i = 0 \/ b[i] = 1) /\ \A j \in (i + 1)..Len(b) : b[j] = 0)

\* a number below 2^31
NatToBits(n) == Norm([i \in 1..31 |-> (n \div 2^(i - 1)) % 2])

Shl(b, k) == IF b = <<>> THEN <<>> ELSE [i \in 1..k |-> 0] \o b

BitAt(b, i) == IF i <= Len(b) THEN b[i] ELSE 0

NumLimbs(b) == (Len(b) + 14) \div 15

RECURSIVE BitsVal(_, _, _)
BitsVal(b, from, n) ==
    IF n = 0 THEN 0 ELSE BitAt(b, from) + 2 * BitsVal(b, from + 1, n - 1)

\* the j-th limb of b, j = 1 the lowest
Limb(b, j) == BitsVal(b, 15 * (j - 1) + 1, 15)

\* the number whose limbs are l
LimbsToBits(l) ==
    Norm([i \in 1..(15 * Len(l)) |->
             (l[(i - 1) \div 15 + 1] \div 2^((i - 1) % 15)) % 2])

\* the limbs s with one more limb, of the sum t of two limbs and a carry
Carried(s, t) == [s |-> Append(s, t % LimbBase), c |-> t \div LimbBase]

AddLimb(lo, t) == Carried(lo.s, t + lo.c)

\* limbs 1..j of a + b + c: [s: the limbs of the sum, c: the carry out]
RECURSIVE AddLimbs(_, _, _, _)
AddLimbs(a, b, c, j) ==
    IF j = 0
    THEN [s |-> <<>>, c |-> c]
    ELSE AddLimb(AddLimbs(a, b, c, j - 1), Limb(a, j) + Limb(b, j))

WithCarry(r) == Append(r.s, r.c)

AddBits(a, b) ==
    LimbsToBits(WithCarry(AddLimbs(a, b, 0, Max(NumLimbs(a), NumLimbs(b)))))

\* a - b for a >= b: a + (2^n - 1 - b) + 1 on n bits, less the carry out 2^n
SubBits(a, b) ==
    LimbsToBits(AddLimbs(a, [i \in 1..(15 * NumLimbs(a)) |-> 1 - BitAt(b, i)],
                         1, NumLimbs(a)).s)

\* the highest bit in which a and b differ, 0 if none
TopDiff(a, b, n) ==
    CHOOSE i \in 0..n :
        (i = 0 \/ BitAt(a, i) # BitAt(b, i))
            /\ \A j \in (i + 1)..n : BitAt(a, j) = BitAt(b, j)

CmpAt(a, b, top) ==
    IF top = 0 THEN 0
    ELSE IF BitAt(a, top) < BitAt(b, top) THEN -1 ELSE 1

\* -1, 0, 1 as a < b, a = b, a > b
CmpBits(a, b) == CmpAt(a, b, TopDiff(a, b, Max(Len(a), Len(b))))

Quot(q, cur, d) == [q |-> <<cur \div d>> \o q, r |-> cur % d]

DivLimb(hi, limb, d) == Quot(hi.q, hi.r * LimbBase + limb, d)

\* Long division of the limbs j.. of b by d < 2^16, highest limb first:
\* [q: the limbs of the quotient, r: the remainder]
RECURSIVE DivLimbs(_, _, _)
DivLimbs(b, j, d) ==
    IF j > NumLimbs(b)
    THEN [q |-> <<>>, r |-> 0]
    ELSE DivLimb(DivLimbs(b, j + 1, d), Limb(b, j), d)

QuotRem(dl) == [q |-> LimbsToBits(dl.q), r |-> dl.r]

DivMod(b, d) == QuotRem(DivLimbs(b, 1, d))

Pow10(k) == 10 ^ k

-----------------------------------------------------------------------------
(* IEEE-754 double precision, round to nearest, ties to even.  The         *)
(* exponent range is not modelled: no amount of the model comes near the   *)
(* subnormal or the overflow range.                                        *)

\* the significand of a double has 53 bits
MantBits == 53

NaN == [nan |-> TRUE, neg |-> FALSE, mant |-> <<>>, exp |-> 0]

Zero == [nan |-> FALSE, neg |-> FALSE, mant |-> <<>>, exp |-> 0]

\* the rounded bits m, one bit shorter if rounding up made them one longer
Carry(m, drop) ==
    IF Len(m) > MantBits
    THEN [mant |-> Tail(m), shift |-> drop + 1]
    ELSE [mant |-> m, shift |-> drop]

\* Round the natural number b (with something more below its last bit iff
\* sticky) to MantBits bits: [mant, shift] with value mant * 2^shift.
\* Half and more of the last kept bit rounds up, but exactly half only to even.
RoundBits(b, sticky) ==
    IF Len(b) <= MantBits
    THEN [mant |-> b, shift |-> 0]
    ELSE IF /\ b[Len(b) - MantBits] = 1
            /\ \/ sticky
               \/ \E i \in 1..(Len(b) - MantBits - 1) : b[i] = 1
               \/ b[Len(b) - MantBits + 1] = 1
         THEN Carry(AddBits(SubSeq(b, Len(b) - MantBits + 1, Len(b)), <<1>>),
                    Len(b) - MantBits)
         ELSE Carry(SubSeq(b, Len(b) - MantBits + 1, Len(b)), Len(b) - MantBits)

\* the double of sign neg and value r.mant * 2^(e + r.shift)
Double(neg, e, r) == [nan |-> FALSE, neg |-> neg, mant |-> r.mant, exp |-> e + r.shift]

Rounded(neg, e, dm) == Double(neg, e, RoundBits(dm.q, dm.r # 0))

\* The double nearest to (-1)^neg * num / 10^scale; num a natural number.
ToDouble(neg, num, scale) ==
    IF num = 0
    THEN [Zero EXCEPT !.neg = neg]
    ELSE Rounded(neg, -(MantBits + 1 + 4 * scale),
                 DivMod(Shl(NatToBits(num), MantBits + 1 + 4 * scale), Pow10(scale)))

\* mx * 2^e + my * 2^e with their signs, c comparing mx with my
AddAligned(xneg, yneg, e, mx, my, c) ==
    Double(IF xneg = yneg \/ c >= 0 THEN xneg ELSE yneg, e,
           RoundBits(IF xneg = yneg THEN AddBits(mx, my)
                     ELSE IF c >= 0 THEN SubBits(mx, my) ELSE SubBits(my, mx),
                     FALSE))

Aligned(xneg, yneg, e, mx, my) == AddAligned(xneg, yneg, e, mx, my, CmpBits(mx, my))

\* x + y
DAdd(x, y) ==
    IF x.nan \/ y.nan
    THEN NaN
    ELSE IF x.mant = <<>> /\ y.mant = <<>>
    THEN [Zero EXCEPT !.neg = x.neg /\ y.neg]
    ELSE IF x.mant = <<>>
    THEN y
    ELSE IF y.mant = <<>>
    THEN x
    ELSE Aligned(x.neg, y.neg, Min(x.exp, y.exp),
                 Shl(x.mant, x.exp - Min(x.exp, y.exp)),
                 Shl(y.mant, y.exp - Min(x.exp, y.exp)))

DNeg(x) == IF x.nan THEN x ELSE [x EXCEPT !.neg = ~x.neg]

\* x - y
DSub(x, y) == DAdd(x, DNeg(y))

\* Math.abs
MathAbs(x) == IF x.nan THEN x ELSE [x EXCEPT !.neg = FALSE]

LessOf(xneg, yneg, c) ==
    IF xneg # yneg THEN xneg
    ELSE IF xneg THEN c > 0 ELSE c < 0

\* x < y on doubles: false as soon as one of them is NaN
DLess(x, y) ==
    IF x.nan \/ y.nan
    THEN FALSE
    ELSE IF x.mant = <<>> /\ y.mant = <<>>
    THEN FALSE
    ELSE IF x.mant = <<>>
    THEN ~y.neg
    ELSE IF y.mant = <<>>
    THEN x.neg
    ELSE LessOf(x.neg, y.neg,
                CmpBits(Shl(x.mant, x.exp - Min(x.exp, y.exp)),
                        Shl(y.mant, y.exp - Min(x.exp, y.exp))))

-----------------------------------------------------------------------------
(* parseFloat.  The amounts of the model are written with white space,     *)
(* sign, digits, "." and letters other than "e", "E" and "I", so the       *)
(* exponent part and "Infinity" of StrDecimalLiteral never occur, and      *)
(* with at most 9 digits of which at most 4 after the point.               *)

\* the first of the places other, or the place after the end of s
FirstOther(s, other) ==
    IF other = {} THEN Len(s) + 1 ELSE CHOOSE i \in other : \A j \in other : i <= j

\* the number of digits s starts with
DigitPrefix(s) == FirstOther(s, {i \in DOMAIN s : ~IsDigit(s[i])}) - 1

RECURSIVE DigitsVal(_)
DigitsVal(s) ==
    IF s = <<>> THEN 0
    ELSE 10 * DigitsVal(SubSeq(s, 1, Len(s) - 1)) + DigitVal(s[Len(s)])

\* the literal of the integer digits int and the fraction digits v[1..fp]
LiteralOf(neg, int, v, fp) ==
    [ok    |-> Len(int) + fp > 0,
     neg   |-> neg,
     num   |-> DigitsVal(int \o SubSeq(v, 1, fp)),
     scale |-> fp]

Fraction(neg, int, v) == LiteralOf(neg, int, v, DigitPrefix(v))

\* u after the sign: ip integer digits, then "." and the fraction if there
IntegerPart(neg, u, ip) ==
    Fraction(neg, SubSeq(u, 1, ip),
             IF Len(u) > ip /\ u[ip + 1] = "." THEN SubSeq(u, ip + 2, Len(u)) ELSE <<>>)

Unsigned(neg, u) == IntegerPart(neg, u, DigitPrefix(u))

\* t after the white space: a sign, if any, and the rest
Signed(t) ==
    Unsigned(t # <<>> /\ t[1] = "-",
             IF t # <<>> /\ t[1] \in {"+", "-"} THEN Tail(t) ELSE t)

\* The longest prefix of s, after its leading white space, that is a
\* StrDecimalLiteral: [ok: there is one, neg, num, scale], of mathematical
\* value (-1)^neg * num / 10^scale.
StrDecimalLiteral(s) == Signed(TrimStart(s))

NumberOf(l) == IF l.ok THEN ToDouble(l.neg, l.num, l.scale) ELSE NaN

\* parseFloat(s) for a string s
parseFloat(s) == NumberOf(StrDecimalLiteral(s))

-----------------------------------------------------------------------------
(* Rows and the ordered Map                                                *)

\* row.f is undefined or '' (the falsy values of a string-valued column)
Falsy(row, f) == f \notin DOMAIN row \/ row[f] = <<>>

\* (a Map that is not made anew: it still holds the entries of the last call)
StaleMap == internalMap

\* new Map(): an empty Map, a sequence of entries [key, value] in insertion order
NewMap == <<>>

MapHas(m, k) == \E i \in DOMAIN m : m[i].key = k

\* the value undefined
Undefined == [undefined |-> TRUE]

IsUndefined(v) == DOMAIN v = {"undefined"}

\* Map.prototype.get: undefined for a key the map lacks
MapGet(m, k) ==
    IF MapHas(m, k) THEN m[CHOOSE i \in DOMAIN m : m[i].key = k].value ELSE Undefined

\* (a set that adds an entry whether or not the map has the key)
MapSetAppend(m, k, v) == Append(m, [key |-> k, value |-> v])

\* (a set that leaves the entry of a key the map has as it is)
MapSetKeepFirst(m, k, v) ==
    IF MapHas(m, k) THEN m ELSE Append(m, [key |-> k, value |-> v])

\* (a set that moves a key the map has to the end)
MapSetMoveToEnd(m, k, v) ==
    Append(SelectSeq(m, LAMBDA e : e.key # k), [key |-> k, value |-> v])

\* Map.prototype.set: a key the map has keeps its place and takes the value
MapSet(m, k, v) ==
    IF MapHas(m, k)
    THEN [i \in DOMAIN m |-> IF m[i].key = k THEN [key |-> k, value |-> v] ELSE m[i]]
    ELSE Append(m, [key |-> k, value |-> v])

\* (the same without trim())
refOfUntrimmed(row) ==
    IF ~Falsy(row, "transaction_reference") THEN row["transaction_reference"]
    ELSE IF ~Falsy(row, "reference") THEN row["reference"]
    ELSE IF ~Falsy(row, "id") THEN row["id"]
    ELSE <<>>

\* (row.transaction_reference || row.reference || row.id || '').toString().trim()
refOf(row) ==
    trim(IF ~Falsy(row, "transaction_reference") THEN row["transaction_reference"]
         ELSE IF ~Falsy(row, "reference") THEN row["reference"]
         ELSE IF ~Falsy(row, "id") THEN row["id"]
         ELSE <<>>)

\* const ref = ...; if (ref) { map.set(ref, row); }
IndexRow(m, ref, row) == IF ref # <<>> THEN MapSet(m, ref, row) ELSE m

\* data.forEach(row => { ... }) over the first n rows
RECURSIVE IndexRows(_, _)
IndexRows(data, n) ==
    IF n = 0
    THEN NewMap
    ELSE IndexRow(IndexRows(data, n - 1), refOf(data[n]), data[n])

\* parseFloat(txn.amount || 0)
amountOf(txn) == parseFloat(IF Falsy(txn, "amount") THEN <<"0">> ELSE txn["amount"])

\* the Number 0.01
Cent == ToDouble(FALSE, 1, 2)

\* Math.abs(internalAmount - providerAmount) < 0.01
amountMatch(internalTxn, providerTxn) ==
    DLess(MathAbs(DSub(amountOf(internalTxn), amountOf(providerTxn))), Cent)

\* (txn.status || '').toLowerCase().trim()
statusOf(txn) ==
    trim(toLowerCase(IF Falsy(txn, "status") THEN <<>> ELSE txn["status"]))

statusMatch(internalTxn, providerTxn) == statusOf(internalTxn) = statusOf(providerTxn)

MatchRecord(ref, internalTxn, providerTxn, am, sm) ==
    [transaction_reference |-> ref,
     internal      |-> internalTxn,
     provider      |-> providerTxn,
     amount_match  |-> am,
     status_match  |-> sm,
     fully_matched |-> am /\ sm]

matchData(ref, internalTxn, providerTxn) ==
    MatchRecord(ref, internalTxn, providerTxn,
                amountMatch(internalTxn, providerTxn),
                statusMatch(internalTxn, providerTxn))

\* the categories as they are made, and whether an error was thrown since
EmptyResults ==
    [matched |-> <<>>, mismatched |-> <<>>, internal_only |-> <<>>,
     provider_only |-> <<>>, threw |-> FALSE]

\* (the same with the else lost: a matched record is pushed to both lists)
PushRecordTwice(r, md) ==
    IF md.fully_matched
    THEN [r EXCEPT !.matched = Append(@, md), !.mismatched = Append(@, md)]
    ELSE [r EXCEPT !.mismatched = Append(@, md)]

\* if (matchData.fully_matched) matched.push(matchData) else mismatched.push(matchData)
PushRecord(r, md) ==
    IF md.fully_matched
    THEN [r EXCEPT !.matched = Append(@, md)]
    ELSE [r EXCEPT !.mismatched = Append(@, md)]

\* lines 106-127: reading providerTxn.amount of undefined throws a TypeError
CompareEntry(r, ref, internalTxn, providerTxn) ==
    IF IsUndefined(providerTxn)
    THEN [r EXCEPT !.threw = TRUE]
    ELSE PushRecord(r, matchData(ref, internalTxn, providerTxn))

\* (the same without the test providerMap.has(ref))
CategorizeEntryUntested(r, pm, ref, internalTxn) ==
    IF r.threw THEN r ELSE CompareEntry(r, ref, internalTxn, MapGet(pm, ref))

\* the body of the loop over internalMap, for the entry [ref, internalTxn];
\* after an error no body runs
CategorizeEntry(r, pm, ref, internalTxn) ==
    IF r.threw
    THEN r
    ELSE IF MapHas(pm, ref)
    THEN CompareEntry(r, ref, internalTxn, MapGet(pm, ref))
    ELSE [r EXCEPT !.internal_only = Append(@, internalTxn)]

\* for (const [ref, internalTxn] of internalMap) { ... }: the first n entries
RECURSIVE Categorize(_, _, _)
Categorize(im, pm, n) ==
    IF n = 0
    THEN EmptyResults
    ELSE CategorizeEntry(Categorize(im, pm, n - 1), pm, im[n].key, im[n].value)

\* (the same without the test !internalMap.has(ref))
ProviderOnlyUntested(im, pm, n) == [i \in 1..n |-> pm[i].value]

\* for (const [ref, providerTxn] of providerMap) { ... }: the first n entries
RECURSIVE ProviderOnly(_, _, _)
ProviderOnly(im, pm, n) ==
    IF n = 0
    THEN <<>>
    ELSE IF ~MapHas(im, pm[n].key)
         THEN Append(ProviderOnly(im, pm, n - 1), pm[n].value)
         ELSE ProviderOnly(im, pm, n - 1)

Summary(iData, pData, r) ==
    [total_internal      |-> Len(iData),
     total_provider      |-> Len(pData),
     matched_count       |-> Len(r.matched),
     mismatched_count    |-> Len(r.mismatched),
     internal_only_count |-> Len(r.internal_only),
     provider_only_count |-> Len(r.provider_only)]

AtReturn(iData, pData, im, pm, r, po) ==
    [internalData |-> iData,
     providerData |-> pData,
     internalMap |-> im,
     providerMap |-> pm,
     threw       |-> r.threw,
     results     |-> [matched       |-> r.matched,
                      mismatched    |-> r.mismatched,
                      internal_only |-> r.internal_only,
                      provider_only |-> po,
                      summary       |-> Summary(iData, pData, [r EXCEPT !.provider_only = po])]]

\* the two loops over the Maps
Categorized(iData, pData, im, pm) ==
    AtReturn(iData, pData, im, pm,
             Categorize(im, pm, Len(im)), ProviderOnly(im, pm, Len(pm)))

\* The body of reconcileTransactions:
\* its two arguments, its two Maps and its results as they are when it returns.
Reconcile(iData, pData) ==
    Categorized(iData, pData, IndexRows(iData, Len(iData)), IndexRows(pData, Len(pData)))

-----------------------------------------------------------------------------
(* The inputs of the model                                                 *)

\* the longest internal and provider sequences of the ordering inputs
MaxInternal == 3
MaxProvider == 2

\* the longest internal sequence of the repeated calls
MaxRepeatInternal == 2

SeqsUpTo(S, n) == UNION {[1..k -> S] : k \in 0..n}

\* a row of the columns cols (a sequence of <<name, value>>) that are given
Row(cols) ==
    LET given == {i \in DOMAIN cols : cols[i][2] # "absent"}
    IN  [f \in {cols[i][1] : i \in given} |->
            cols[CHOOSE i \in given : cols[i][1] = f][2]]

\* one row a side under the same key, of any amount and any status
Amounts ==
    { "absent", <<>>, <<"0">>, <<"0", ".", "0", "1">>, <<"0", ".", "0", "0", "9">>,
      <<"1", "0", ".", "0", "0">>, <<"1", "0", ".", "0", "1">>,
      <<"1", "0", ".", "0", "0", "9">>, <<"1", "0", ".", "5", "0">>,
      <<" ", "1", "0">>, <<"1", "0", "a", "b", "c">>, <<"-", "1", "0">>,
      <<"a", "b", "c">> }

Statuses ==
    { "absent", <<>>, <<"C", "o", "m", "p", "l", "e", "t", "e", "d">>,
      <<"c", "o", "m", "p", "l", "e", "t", "e", "d">>,
      <<" ", "C", "O", "M", "P", "L", "E", "T", "E", "D", " ">>,
      <<"P", "e", "n", "d", "i", "n", "g">> }

CompareRow(a, s) ==
    Row(<< <<"id", <<"T", "1">> >>, <<"amount", a>>, <<"status", s>> >>)

\* every amount with two statuses, and every status with two amounts
CompareRows ==
    { CompareRow(a, s) :
        a \in Amounts,
        s \in { <<"C", "o", "m", "p", "l", "e", "t", "e", "d">>,
                <<"P", "e", "n", "d", "i", "n", "g">> } }
    \cup
    { CompareRow(a, s) :
        a \in { <<"1", "0", ".", "0", "0">>, <<"1", "0", ".", "5", "0">> },
        s \in Statuses }

CompareInputs == {<< <<i>>, <<p>> >> : i \in CompareRows, p \in CompareRows}

\* one row a side, of any three key columns
KeyValues == {"absent", <<>>, <<" ">>, <<"A">>, <<" ", "B">>}

KeyRows ==
    { Row(<< <<"transaction_reference", t>>, <<"reference", r>>, <<"id", i>>,
             <<"amount", <<"0">> >> >>) :
        t \in KeyValues, r \in KeyValues, i \in KeyValues }

KeyInputs == {<< <<i>>, <<p>> >> : i \in KeyRows, p \in KeyRows}

\* several rows a side, all of the same columns as the rows of one file are:
\* two keys on both sides, rows of one key that differ, a key of the provider
\* alone and an internal row without a key
OrderRow(t, r, i, s) ==
    Row(<< <<"transaction_reference", t>>, <<"reference", r>>, <<"id", i>>,
           <<"status", s>> >>)

SharedOrderRows ==
    { OrderRow(<<>>, <<>>, <<"A">>, <<"o", "k">>),
      OrderRow(<<>>, <<>>, <<"A">>, <<"n", "o">>),
      OrderRow(<<>>, <<"B">>, <<>>, <<"o", "k">>) }

ProviderOrderRows ==
    SharedOrderRows \cup {OrderRow(<<"C">>, <<>>, <<>>, <<"o", "k">>)}

InternalOrderRows ==
    SharedOrderRows \cup
    { OrderRow(<<>>, <<"B">>, <<>>, <<"n", "o">>),
      OrderRow(<<" ">>, <<>>, <<>>, <<"o", "k">>) }

OrderInputs ==
    SeqsUpTo(InternalOrderRows, MaxInternal) \X SeqsUpTo(ProviderOrderRows, MaxProvider)

Inputs == CompareInputs \cup KeyInputs \cup OrderInputs

RepeatRows ==
    { Row(<< <<"id", <<"A">> >>, <<"status", <<"o", "k">> >> >>),
      Row(<< <<"id", <<"A">> >>, <<"status", <<"n", "o">> >> >>) }

\* no provider row, or one
RepeatInputs ==
    SeqsUpTo(RepeatRows, MaxRepeatInternal)
        \X {<<>>, <<Row(<< <<"id", <<"A">> >>, <<"status", <<"o", "k">> >> >>)>>}

-----------------------------------------------------------------------------
(* The state machine: the two parsed sequences are there, and               *)
(* reconcileTransactions is called on them.                                *)

Null == [null |-> TRUE]

\* how many runs of processReconciliation can be under way at once
MaxRuns == 2

Runs == 1..MaxRuns

\* files[0] of an input with no file chosen
NoFile == [undefined |-> TRUE]

NoRun ==
    [at |-> "none", internalFile |-> NoFile, providerFile |-> NoFile,
     internalData |-> <<>>, alone |-> FALSE]

\* the page as it is loaded: no run, the sections hidden, the button enabled,
\* currentResults null (constructor)
InitialPage ==
    /\ runs = [r \in Runs |-> NoRun]
    /\ page = [errorSection |-> "none", errorMessage |-> "",
               resultsSection |-> "none", resultsHTML |-> Null,
               loadingSection |-> "none", disabled |-> FALSE]
    /\ currentResults = Null
    /\ last = [called |-> FALSE, alert |-> FALSE, download |-> "none"]

InitOn(inputs) ==
    /\ InitialPage
    /\ \E in \in inputs : internalData = in[1] /\ providerData = in[2]
    /\ internalMap = <<>>
    /\ providerMap = <<>>
    /\ results = Null
    /\ pc = "ready"
    /\ first = Null

\* the state when the call that computed out returns
Return(out) ==
    /\ internalData' = out.internalData
    /\ providerData' = out.providerData
    /\ internalMap' = out.internalMap
    /\ providerMap' = out.providerMap
    /\ results' = out.results
    /\ pc' = "returned"
    /\ first' = IF first = Null
                THEN [internalData |-> out.internalData,
                      providerData |-> out.providerData,
                      results      |-> out.results,
                      others       |-> FALSE]
                ELSE [first EXCEPT !.others =
                         @ \/ out.internalData # first.internalData
                           \/ out.providerData # first.providerData]

\* the state when the call that computed out ends in an error: nothing is
\* returned
Throw(out) ==
    /\ internalData' = out.internalData
    /\ providerData' = out.providerData
    /\ internalMap' = out.internalMap
    /\ providerMap' = out.providerMap
    /\ pc' = "threw"
    /\ UNCHANGED <<results, first>>

Complete(out) == IF out.threw THEN Throw(out) ELSE Return(out)

reconcileTransactions(iData, pData) == Complete(Reconcile(iData, pData))

\* the call on the two sequences that are there
FirstCall ==
    /\ pc = "ready"
    /\ reconcileTransactions(internalData, providerData)
    /\ UNCHANGED pageVars

Init == InitOn(Inputs)

Next == FirstCall

Spec == Init /\ [][Next]_vars

\* Call after call, each on two sequences of its own.
LaterCall ==
    /\ pc = "returned"
    /\ \E in \in RepeatInputs : reconcileTransactions(in[1], in[2])
    /\ UNCHANGED pageVars

InitRepeat == InitOn(RepeatInputs)

NextRepeat == FirstCall \/ LaterCall

SpecRepeat == InitRepeat /\ [][NextRepeat]_vars

-----------------------------------------------------------------------------
(* parseCSV: the text of a file to rows.                                    *)

\* where c first is in s from place i on, 0 if nowhere
RECURSIVE IndexFrom(_, _, _)
IndexFrom(s, c, i) ==
    IF i > Len(s) THEN 0
    ELSE IF s[i] = c THEN i
    ELSE IndexFrom(s, c, i + 1)

IndexIn(s, c) == IndexFrom(s, c, 1)

\* String.prototype.split on a one-character separator
RECURSIVE split(_, _)
SplitAt(s, sep, i) ==
    IF i = 0
    THEN <<s>>
    ELSE <<SubSeq(s, 1, i - 1)>> \o split(SubSeq(s, i + 1, Len(s)), sep)

split(s, sep) == SplitAt(s, sep, IndexIn(s, sep))

\* text.split('\n').filter(line => line.trim())
NonBlankLines(text) == SelectSeq(split(text, "\n"), LAMBDA line : trim(line) # <<>>)

\* x.trim().replace(/"/g, '')
Cell(x) == SelectSeq(trim(x), LAMBDA c : c # "\"")

CellsOf(parts) == [i \in DOMAIN parts |-> Cell(parts[i])]

\* line.split(',').map(...)
Cells(line) == CellsOf(split(line, ","))

\* the property names the headers of the files can give
ColumnChars ==
    [id     |-> <<"i", "d">>,
     status |-> <<"s", "t", "a", "t", "u", "s">>,
     amount |-> <<"a", "m", "o", "u", "n", "t">>]

Column(header) == CHOOSE c \in DOMAIN ColumnChars : ColumnChars[c] = header

\* headers.forEach((header, index) => { row[header] = values[index]; }): of
\* headers that are the same the last one gives the value
RowObject(headers, values) ==
    [c \in {Column(headers[i]) : i \in DOMAIN headers} |->
        values[CHOOSE i \in DOMAIN headers :
                  /\ Column(headers[i]) = c
                  /\ \A j \in (i + 1)..Len(headers) : Column(headers[j]) # c]]

RowObjects(headers, kept) == [i \in DOMAIN kept |-> RowObject(headers, kept[i])]

\* the loop over lines[1..]: the lines with as many cells as the header
DataOf(headers, lines) ==
    RowObjects(headers,
               SelectSeq([i \in 1..(Len(lines) - 1) |-> Cells(lines[i + 1])],
                         LAMBDA values : Len(values) = Len(headers)))

\* reader.onload: reject on fewer than two lines, resolve with the rows
OnLoad(lines) ==
    IF Len(lines) < 2
    THEN [ok |-> FALSE, data |-> <<>>,
          message |-> "CSV file must have at least a header and one data row"]
    ELSE [ok |-> TRUE, data |-> DataOf(Cells(lines[1]), lines), message |-> ""]

\* how parseCSV(file) settles when the read of the file loads
parseCSV(file) == OnLoad(NonBlankLines(file.text))

\* reader.onerror
ReadError == [ok |-> FALSE, data |-> <<>>, message |-> "Failed to read file"]

-----------------------------------------------------------------------------
(* The files a user can choose                                              *)

\* two rows, after an empty line, the first with spaces and quotes
GoodFile ==
    [name |-> "good.csv",
     text |-> <<"i", "d", ",", "s", "t", "a", "t", "u", "s", "\n", "\n",
              " ", "\"", "A", "\"", " ", ",", "o", "k", "\n", "B", ",",
              "n", "o", "\n">>]

\* two rows, one of a key of its own; no line end after the last row
OtherFile ==
    [name |-> "other.csv",
     text |-> <<"i", "d", ",", "s", "t", "a", "t", "u", "s", "\n", "A",
              ",", "o", "k", "\n", "C", ",", "o", "k">>]

\* a header and a line of white space
ShortFile ==
    [name |-> "short.csv",
     text |-> <<"i", "d", ",", "s", "t", "a", "t", "u", "s", "\n", " ",
              "\n">>]

\* a header and a line of one cell: no row
RaggedFile ==
    [name |-> "ragged.csv",
     text |-> <<"i", "d", ",", "s", "t", "a", "t", "u", "s", "\n", "A",
              "\n">>]

InternalFiles == {GoodFile, ShortFile, RaggedFile}

ProviderFiles == {GoodFile, OtherFile, RaggedFile}

-----------------------------------------------------------------------------
(* The page: submitting the form, the reads of the two files, exporting a   *)
(* category.  A step is what runs without interruption: a handler up to    *)
(* its return or its first await, or the event that ends a read together   *)
(* with the continuation of the run that awaits it.  Of the page the model *)
(* has the display of the three sections, the error message, the Result    *)
(* that is rendered and the state of the button; the texts of the file     *)
(* name elements and of the button, the text of an alert and the message   *)
(* that an export puts in the results section for three seconds are left   *)
(* out.                                                                     *)

showLoading(p, show) ==
    [p EXCEPT !.loadingSection = IF show THEN "block" ELSE "none",
              !.disabled = show]

showError(p, message) ==
    [p EXCEPT !.errorMessage = message, !.errorSection = "block"]

hideError(p) == [p EXCEPT !.errorSection = "none"]

hideResults(p) == [p EXCEPT !.resultsSection = "none"]

\* resultsSection.innerHTML = html; resultsSection.style.display = 'block'
displayResults(p, r) ==
    [p EXCEPT !.resultsHTML = r, !.resultsSection = "block"]

\* a step that is no call of reconcileTransactions and no export
Other == [called |-> FALSE, alert |-> FALSE, download |-> "none"]

Under(r) == runs[r].at # "none"

\* lines 162-168, up to the first await: the read of the internal file is
\* started.  No run that is under way is alone any more.
Starts(r, internalFile, providerFile) ==
    /\ ~Under(r)
    /\ \A q \in 1..(r - 1) : Under(q)
    /\ page' = hideResults(hideError(showLoading(page, TRUE)))
    /\ runs' = [q \in Runs |->
                   IF q = r
                   THEN [at |-> "internal",
                         internalFile |-> internalFile,
                         providerFile |-> providerFile,
                         internalData |-> <<>>,
                         alone |-> \A o \in Runs : ~Under(o)]
                   ELSE [runs[q] EXCEPT !.alone = FALSE]]

\* processReconciliation, up to its return or its first await, on the files
\* that are chosen in the two inputs
processReconciliation(internalFile, providerFile) ==
    /\ IF internalFile = NoFile \/ providerFile = NoFile
       THEN /\ page' = showError(page, "Please select both CSV files")
            /\ UNCHANGED runs
       ELSE \E r \in Runs : Starts(r, internalFile, providerFile)
    /\ last' = Other
    /\ UNCHANGED currentResults
    /\ UNCHANGED engineVars

\* (the same without finally: loading stays on)
FailsLoading(r, message) ==
    /\ page' = showError(page, message)
    /\ runs' = [runs EXCEPT ![r] = NoRun]
    /\ last' = Other
    /\ UNCHANGED currentResults
    /\ UNCHANGED engineVars

\* catch and finally: the message is shown, loading is off, the run is over
Fails(r, message) ==
    /\ page' = showLoading(showError(page, message), FALSE)
    /\ runs' = [runs EXCEPT ![r] = NoRun]
    /\ last' = Other
    /\ UNCHANGED currentResults
    /\ UNCHANGED engineVars

\* the first await settles: on with the read of the provider file, or catch
InternalSettles(r, parsed) ==
    IF parsed.ok
    THEN /\ runs' = [runs EXCEPT ![r].at = "provider",
                                 ![r].internalData = parsed.data]
         /\ last' = Other
         /\ UNCHANGED <<page, currentResults>>
         /\ UNCHANGED engineVars
    ELSE Fails(r, parsed.message)

InternalLoad(r) ==
    /\ runs[r].at = "internal"
    /\ InternalSettles(r, parseCSV(runs[r].internalFile))

InternalError(r) ==
    /\ runs[r].at = "internal"
    /\ InternalSettles(r, ReadError)

\* the call of reconcileTransactions that computed out, as the page sees it
Called(out) ==
    /\ UNCHANGED first
    /\ internalData' = out.internalData
    /\ providerData' = out.providerData
    /\ internalMap' = out.internalMap
    /\ providerMap' = out.providerMap
    /\ results' = IF out.threw THEN results ELSE out.results
    /\ pc' = IF out.threw THEN "threw" ELSE "returned"

\* lines 176-187 once reconcileTransactions has computed out
Reconciled(r, out) ==
    /\ runs' = [runs EXCEPT ![r] = NoRun]
    /\ last' = [Other EXCEPT !.called = TRUE]
    /\ Called(out)
    /\ IF out.threw
       THEN /\ page' = showLoading(showError(page, "TypeError"), FALSE)
            /\ UNCHANGED currentResults
       ELSE /\ currentResults' = out.results
            /\ page' = showLoading(displayResults(page, out.results), FALSE)

\* (the same with this.currentResults set before the test of the lengths)
ProviderSettlesStoring(r, parsed) ==
    IF ~parsed.ok
    THEN Fails(r, parsed.message)
    ELSE IF Len(runs[r].internalData) = 0 \/ Len(parsed.data) = 0
    THEN /\ page' = showLoading(showError(page, "One or both CSV files are empty"), FALSE)
         /\ runs' = [runs EXCEPT ![r] = NoRun]
         /\ last' = Other
         /\ currentResults' = Reconcile(runs[r].internalData, parsed.data).results
         /\ UNCHANGED engineVars
    ELSE Reconciled(r, Reconcile(runs[r].internalData, parsed.data))

\* (the same without the test of the lengths)
ProviderSettlesUntested(r, parsed) ==
    IF ~parsed.ok
    THEN Fails(r, parsed.message)
    ELSE Reconciled(r, Reconcile(runs[r].internalData, parsed.data))

\* the second await settles: catch, or the test of the lengths and the rest
ProviderSettles(r, parsed) ==
    IF ~parsed.ok
    THEN Fails(r, parsed.message)
    ELSE IF Len(runs[r].internalData) = 0 \/ Len(parsed.data) = 0
    THEN Fails(r, "One or both CSV files are empty")
    ELSE Reconciled(r, Reconcile(runs[r].internalData, parsed.data))

ProviderLoad(r) ==
    /\ runs[r].at = "provider"
    /\ ProviderSettles(r, parseCSV(runs[r].providerFile))

ProviderError(r) ==
    /\ runs[r].at = "provider"
    /\ ProviderSettles(r, ReadError)

Categories == {"matched", "mismatched", "internal_only", "provider_only"}

\* an export: whether an alert was shown, and the category downloaded
Exported(alert, download) == [called |-> FALSE, alert |-> alert, download |-> download]

\* downloadCSV: the link is clicked if the browser knows link.download
Downloads(category) ==
    \E known \in BOOLEAN : last' = Exported(FALSE, IF known THEN category ELSE "none")

exportCategory(category) ==
    /\ IF currentResults = Null
       THEN last' = Exported(TRUE, "none")
       ELSE IF category \notin Categories
       THEN last' = Exported(TRUE, "none")
       ELSE IF Len(currentResults[category]) = 0
       THEN last' = Exported(TRUE, "none")
       ELSE Downloads(category)
    /\ UNCHANGED <<runs, page, currentResults>>
    /\ UNCHANGED engineVars

Export == \E category \in Categories \cup {"summary"} : exportCategory(category)

InitPage ==
    /\ InitialPage
    /\ internalData = <<>>
    /\ providerData = <<>>
    /\ internalMap = <<>>
    /\ providerMap = <<>>
    /\ results = Null
    /\ pc = "none"
    /\ first = Null

Submit ==
    \E internalFile \in InternalFiles \cup {NoFile},
       providerFile \in ProviderFiles \cup {NoFile} :
        processReconciliation(internalFile, providerFile)

Load == \E r \in Runs : InternalLoad(r) \/ ProviderLoad(r)

Error == \E r \in Runs : InternalError(r) \/ ProviderError(r)

NextPage ==
    \/ Submit
    \/ Load
    \/ Error
    \/ Export

SpecPage == InitPage /\ [][NextPage]_vars

\* every read that was started ends, with load or with error
ReadsEnd ==
    \A r \in Runs : /\ WF_vars(InternalError(r) \/ InternalLoad(r))
                    /\ WF_vars(ProviderError(r) \/ ProviderLoad(r))

SpecPageFair == SpecPage /\ ReadsEnd

-----------------------------------------------------------------------------
(* What the claims speak of                                                *)

Returned == pc = "returned"

KeyColumns == <<"transaction_reference", "reference", "id">>

\* the column is absent, or blank once white space is trimmed
Blank(row, f) == f \notin DOMAIN row \/ trim(row[f]) = <<>>

AllBlank(row) == \A i \in DOMAIN KeyColumns : Blank(row, KeyColumns[i])

\* the trimmed value of the first key column that is not blank, <<>> if none
FirstNonBlank(row) ==
    IF AllBlank(row) THEN <<>>
    ELSE trim(row[KeyColumns[CHOOSE i \in DOMAIN KeyColumns :
                     /\ ~Blank(row, KeyColumns[i])
                     /\ \A j \in 1..(i - 1) : Blank(row, KeyColumns[j])]])

MapKeys(m) == {m[i].key : i \in DOMAIN m}

SharedKeys == MapKeys(internalMap) \cap MapKeys(providerMap)

\* the keys of the Match Records of a category
RecordKeys(cat) == {cat[i].transaction_reference : i \in DOMAIN cat}

\* the Match Record of a shared key, wherever it was put
RecordOf(k) ==
    LET all == results.matched \o results.mismatched
    IN  all[CHOOSE i \in DOMAIN all : all[i].transaction_reference = k]

HasRecord(k) == k \in RecordKeys(results.matched) \cup RecordKeys(results.mismatched)

\* The amount column as a text reads: absent or empty, not a number at all,
\* or a decimal number from its first to its last character.
NoAmount(row) == Falsy(row, "amount")

Unparsable(row) == ~NoAmount(row) /\ ~StrDecimalLiteral(row["amount"]).ok

Numeric(row) ==
    /\ ~NoAmount(row)
    /\ LET a == TrimStart(row["amount"])
           l == StrDecimalLiteral(a)
           n == (IF a[1] \in {"+", "-"} THEN 1 ELSE 0)
                  + DigitPrefix(SubSeq(a, (IF a[1] \in {"+", "-"} THEN 2 ELSE 1), Len(a)))
       IN  /\ l.ok
           /\ \/ l.scale = 0 /\ n = Len(a)
              \/ l.scale > 0 /\ n + 1 + l.scale = Len(a)

\* The amount of a row, in ten-thousandths: the decimal number its amount
\* column is, and 0 when the column is absent, empty or not a number.
Units(row) ==
    IF NoAmount(row) \/ Unparsable(row) THEN 0
    ELSE LET l == StrDecimalLiteral(row["amount"])
         IN  (IF l.neg THEN -1 ELSE 1) * l.num * 10 ^ (4 - l.scale)

\* the amount column is one the claims give an amount to
HasAmount(row) == NoAmount(row) \/ Unparsable(row) \/ Numeric(row)

Dist(a, b) == IF a >= b THEN a - b ELSE b - a

\* one hundredth, in ten-thousandths
Hundredth == 100

\* the two amounts differ by less than 0.01
AmountsClose(i, p) == Dist(Units(i), Units(p)) < Hundredth

\* the status column lower-cased and trimmed, absent counting as ''
StatusText(row) == trim(toLowerCase(IF "status" \in DOMAIN row THEN row["status"] ELSE <<>>))

StatusesEqual(i, p) == StatusText(i) = StatusText(p)

-----------------------------------------------------------------------------
(* The claims                                                              *)

\* C1: for every key in both indexes whose two rows' amounts differ by less
\* than 0.01 and whose statuses are equal once lower-cased and trimmed, the
\* Match Record of the key is in matched and not in mismatched.
C1_CloseAndEqualAreMatched ==
    Returned =>
        \A k \in SharedKeys :
            LET i == MapGet(internalMap, k)
                p == MapGet(providerMap, k)
            IN  (HasAmount(i) /\ HasAmount(p) /\ AmountsClose(i, p) /\ StatusesEqual(i, p))
                    => /\ k \in RecordKeys(results.matched)
                       /\ k \notin RecordKeys(results.mismatched)

\* C1, for the rows whose amount column is absent, empty or a decimal number
\* (it holds of these: see C3 for the others).
C1_OfNumericAmounts ==
    Returned =>
        \A k \in SharedKeys :
            LET i == MapGet(internalMap, k)
                p == MapGet(providerMap, k)
            IN  (/\ NoAmount(i) \/ Numeric(i)
                 /\ NoAmount(p) \/ Numeric(p)
                 /\ AmountsClose(i, p) /\ StatusesEqual(i, p))
                    => /\ k \in RecordKeys(results.matched)
                       /\ k \notin RecordKeys(results.mismatched)

\* C2: for every key in both indexes whose two rows' amounts differ by 0.01 or
\* more, or whose lower-cased trimmed statuses differ, the Match Record of
\* the key is in mismatched and not in matched, its amount_match and
\* status_match telling which comparison failed.  (Stated of the rows whose
\* amount column is absent, empty or a decimal number.)
C2_FarOrDifferentAreMismatched ==
    Returned =>
        \A k \in SharedKeys :
            LET i == MapGet(internalMap, k)
                p == MapGet(providerMap, k)
            IN  (/\ NoAmount(i) \/ Numeric(i)
                 /\ NoAmount(p) \/ Numeric(p)
                 /\ ~AmountsClose(i, p) \/ ~StatusesEqual(i, p))
                    => /\ k \in RecordKeys(results.mismatched)
                       /\ k \notin RecordKeys(results.matched)
                       /\ RecordOf(k).amount_match = AmountsClose(i, p)
                       /\ RecordOf(k).status_match = StatusesEqual(i, p)

\* C3: an amount that is absent, empty or not a number counts as 0: under a
\* shared key, an amount that is not a number against one that is 0, absent
\* or not a number either gives amount_match true, and against an amount of
\* 0.01 or more it gives amount_match false.
C3_UnparsableAmountIsZero ==
    Returned =>
        \A k \in SharedKeys :
            LET i == MapGet(internalMap, k)
                p == MapGet(providerMap, k)
            IN  (HasAmount(i) /\ HasAmount(p) /\ (Unparsable(i) \/ Unparsable(p)))
                    => /\ HasRecord(k)
                       /\ (Units(i) = 0 /\ Units(p) = 0)
                              => RecordOf(k).amount_match = TRUE
                       /\ (Units(i) >= Hundredth \/ Units(p) >= Hundredth)
                              => RecordOf(k).amount_match = FALSE

\* C4: on either side the index holds, for every row, the trimmed value of
\* the first of transaction_reference, reference, id that is not blank once
\* trimmed, and leaves out only the rows whose three columns are all absent
\* or blank.
C4_KeyIsFirstNonBlankColumn ==
    Returned =>
        /\ MapKeys(internalMap) =
              {FirstNonBlank(internalData[i]) : i \in DOMAIN internalData} \ {<<>>}
        /\ MapKeys(providerMap) =
              {FirstNonBlank(providerData[i]) : i \in DOMAIN providerData} \ {<<>>}

\* the rows that have a key column
Keyed(data) == SelectSeq(data, LAMBDA row : ~AllBlank(row))

\* every row the results hold, alone or in a Match Record
OutputRows ==
    LET recs == results.matched \o results.mismatched
        only == results.internal_only \o results.provider_only
    IN  {only[i] : i \in DOMAIN only}
            \cup {recs[i].internal : i \in DOMAIN recs}
            \cup {recs[i].provider : i \in DOMAIN recs}

\* C5: a row whose transaction_reference, reference and id are all absent or
\* blank is in no category, alone or in a Match Record, and changes none of
\* the four categories and counts (they are those of the input without such
\* rows), yet total_internal and total_provider are the lengths of the input.
C5_BlankRowsAreLeftOut ==
    Returned =>
        LET r == Reconcile(Keyed(internalData), Keyed(providerData)).results
        IN  /\ \A row \in OutputRows : ~AllBlank(row)
            /\ results.matched = r.matched
            /\ results.mismatched = r.mismatched
            /\ results.internal_only = r.internal_only
            /\ results.provider_only = r.provider_only
            /\ results.summary.matched_count = r.summary.matched_count
            /\ results.summary.mismatched_count = r.summary.mismatched_count
            /\ results.summary.internal_only_count = r.summary.internal_only_count
            /\ results.summary.provider_only_count = r.summary.provider_only_count
            /\ results.summary.total_internal = Len(internalData)
            /\ results.summary.total_provider = Len(providerData)

\* a blank row among internal rows that are put in categories
C5_Witness ==
    /\ Returned
    /\ \E i \in DOMAIN internalData : AllBlank(internalData[i])
    /\ Len(results.internal_only) >= 1
    /\ results.summary.total_internal >
          results.summary.matched_count + results.summary.mismatched_count
              + results.summary.internal_only_count

\* the distinct keys the rows of a sequence give
KeysOf(data) == {refOf(data[i]) : i \in DOMAIN data} \ {<<>>}

\* C6: matched_count + mismatched_count + internal_only_count is the number
\* of distinct non-empty keys of the internal rows, at most total_internal.
C6_InternalCounts ==
    Returned =>
        /\ results.summary.matched_count + results.summary.mismatched_count
              + results.summary.internal_only_count
                  = Cardinality(KeysOf(internalData))
        /\ Cardinality(KeysOf(internalData)) <= results.summary.total_internal

\* fewer keys than internal rows, some of them shared and some not
C6_Witness ==
    /\ Returned
    /\ Cardinality(KeysOf(internalData)) < results.summary.total_internal
    /\ results.summary.internal_only_count >= 1
    /\ results.summary.matched_count + results.summary.mismatched_count >= 1

\* C7: matched.length + mismatched.length is the number of keys in both
\* indexes; with provider_only.length it is the number of distinct non-empty
\* keys of the provider rows, at most total_provider.
C7_ProviderCounts ==
    Returned =>
        /\ Len(results.matched) + Len(results.mismatched) = Cardinality(SharedKeys)
        /\ SharedKeys = KeysOf(internalData) \cap KeysOf(providerData)
        /\ Len(results.matched) + Len(results.mismatched) + Len(results.provider_only)
              = Cardinality(KeysOf(providerData))
        /\ Cardinality(KeysOf(providerData)) <= results.summary.total_provider

\* a shared key, a key of the provider alone and a key of the internal side alone
C7_Witness ==
    /\ Returned
    /\ Len(results.matched) + Len(results.mismatched) >= 1
    /\ Len(results.provider_only) >= 1
    /\ Len(results.internal_only) >= 1

\* where a key first and last occurs among the rows of a sequence
FirstIndex(data, k) ==
    CHOOSE i \in DOMAIN data :
        refOf(data[i]) = k /\ \A j \in 1..(i - 1) : refOf(data[j]) # k

LastIndex(data, k) ==
    CHOOSE i \in DOMAIN data :
        refOf(data[i]) = k /\ \A j \in (i + 1)..Len(data) : refOf(data[j]) # k

\* the keys of a sequence of keys come in the order of their first rows
InFirstOrder(keys, data) ==
    \A i, j \in DOMAIN keys :
        i < j => FirstIndex(data, keys[i]) < FirstIndex(data, keys[j])

\* m holds every key of the rows once, with the last row of the key, in the
\* order of the first rows
IndexOf(m, data) ==
    /\ MapKeys(m) = KeysOf(data)
    /\ Len(m) = Cardinality(KeysOf(data))
    /\ \A i \in DOMAIN m : m[i].value = data[LastIndex(data, m[i].key)]
    /\ InFirstOrder([i \in DOMAIN m |-> m[i].key], data)

\* how many entries of a sequence of Match Records, or of rows, are of a key
RecordsOf(cat, k) == Cardinality({i \in DOMAIN cat : cat[i].transaction_reference = k})

RowsOf(rows, k) == Cardinality({i \in DOMAIN rows : refOf(rows[i]) = k})

\* C8: each side's index holds one entry a key, with the last row of that
\* key, at the place of the key's first row; the results hold exactly one
\* entry for each key of a side, a Match Record made by comparing the last
\* rows of the key or the last row alone.
C8_LastRowWinsFirstPlace ==
    Returned =>
        LET recs == results.matched \o results.mismatched
        IN  /\ IndexOf(internalMap, internalData)
            /\ IndexOf(providerMap, providerData)
            /\ \A k \in KeysOf(internalData) :
                  RecordsOf(recs, k) + RowsOf(results.internal_only, k) = 1
            /\ \A k \in KeysOf(providerData) :
                  RecordsOf(recs, k) + RowsOf(results.provider_only, k) = 1
            /\ \A i \in DOMAIN recs :
                  LET k == recs[i].transaction_reference
                  IN  recs[i] = matchData(k, internalData[LastIndex(internalData, k)],
                                          providerData[LastIndex(providerData, k)])
            /\ \A i \in DOMAIN results.internal_only :
                  LET row == results.internal_only[i]
                  IN  row = internalData[LastIndex(internalData, refOf(row))]
            /\ \A i \in DOMAIN results.provider_only :
                  LET row == results.provider_only[i]
                  IN  row = providerData[LastIndex(providerData, refOf(row))]

\* rows of one key that differ, with a row of another key between them, in
\* the internal sequence, and rows of one key that differ in the provider's
C8_Witness ==
    /\ Returned
    /\ Len(internalData) = 3
    /\ refOf(internalData[1]) = refOf(internalData[3])
    /\ internalData[1] # internalData[3]
    /\ refOf(internalData[2]) \notin {<<>>, refOf(internalData[1])}
    /\ Len(providerData) = 2
    /\ refOf(providerData[1]) = refOf(internalData[1])
    /\ refOf(providerData[2]) = refOf(internalData[1])
    /\ providerData[1] # providerData[2]
    /\ Len(results.matched) = 1
    /\ Len(results.internal_only) = 1

\* the keys of a sequence of Match Records and of a sequence of rows
RecordKeySeq(cat) == [i \in DOMAIN cat |-> cat[i].transaction_reference]

RowKeySeq(rows) == [i \in DOMAIN rows |-> refOf(rows[i])]

\* C9: matched, mismatched and internal_only are each in the order in which
\* their keys first occur in the internal sequence, provider_only in the
\* order in which its keys first occur in the provider's; when no key is on
\* both sides matched and mismatched are empty and internal_only and
\* provider_only hold exactly one row for each key of their side.
C9_FirstOccurrenceOrder ==
    Returned =>
        /\ InFirstOrder(RecordKeySeq(results.matched), internalData)
        /\ InFirstOrder(RecordKeySeq(results.mismatched), internalData)
        /\ InFirstOrder(RowKeySeq(results.internal_only), internalData)
        /\ InFirstOrder(RowKeySeq(results.provider_only), providerData)
        /\ KeysOf(internalData) \cap KeysOf(providerData) = {} =>
              /\ results.matched = <<>>
              /\ results.mismatched = <<>>
              /\ Len(results.internal_only) = Cardinality(KeysOf(internalData))
              /\ \A k \in KeysOf(internalData) : RowsOf(results.internal_only, k) = 1
              /\ Len(results.provider_only) = Cardinality(KeysOf(providerData))
              /\ \A k \in KeysOf(providerData) : RowsOf(results.provider_only, k) = 1

\* two keys on the internal side alone, the first of them in a later row
\* too, and another key on the provider side
C9_Witness ==
    /\ Returned
    /\ Len(internalData) = 3
    /\ refOf(internalData[1]) = refOf(internalData[3])
    /\ refOf(internalData[2]) \notin {<<>>, refOf(internalData[1])}
    /\ KeysOf(internalData) \cap KeysOf(providerData) = {}
    /\ Len(results.internal_only) = 2
    /\ Len(results.provider_only) = 1

\* C10: a call on the two sequences of the first call gives the results of
\* the first call, whatever was called before it, and a call leaves the two
\* sequences it is called on as they are.
C10_SameArgumentsSameResults ==
    /\ [](Returned /\ internalData = first.internalData
                   /\ providerData = first.providerData
              => results = first.results)
    /\ [][pc = "ready" /\ pc' = "returned"
              => internalData' = internalData /\ providerData' = providerData]_vars

\* the arguments of the first call again, after a call on other arguments
C10_Witness ==
    /\ Returned
    /\ first.others
    /\ internalData = first.internalData
    /\ providerData = first.providerData
    /\ Len(results.matched) + Len(results.mismatched) >= 1

\* a Result: the four categories and the six counts
IsResult(r) ==
    /\ DOMAIN r = {"matched", "mismatched", "internal_only", "provider_only", "summary"}
    /\ DOMAIN r.summary = {"total_internal", "total_provider", "matched_count",
                           "mismatched_count", "internal_only_count",
                           "provider_only_count"}
    /\ \A f \in DOMAIN r.summary : r.summary[f] \in Nat

\* C11: reconcileTransactions is total: on any two sequences of rows, empty
\* ones and rows without key, amount or status columns among them, the call
\* can complete and it returns a Result and throws no error; when a side is
\* empty its total and its only-count are 0 and matched and mismatched are
\* empty.
C11_Total ==
    /\ pc # "threw"
    /\ pc = "ready" =>
          /\ ~Reconcile(internalData, providerData).threw
          /\ IsResult(Reconcile(internalData, providerData).results)
    /\ Returned =>
          /\ IsResult(results)
          /\ internalData = <<>> =>
                /\ results.summary.total_internal = 0
                /\ results.summary.internal_only_count = 0
                /\ results.internal_only = <<>>
                /\ results.matched = <<>>
                /\ results.mismatched = <<>>
          /\ providerData = <<>> =>
                /\ results.summary.total_provider = 0
                /\ results.summary.provider_only_count = 0
                /\ results.provider_only = <<>>
                /\ results.matched = <<>>
                /\ results.mismatched = <<>>

\* one internal row, without an amount column, and no provider row
C11_Witness ==
    /\ Returned
    /\ Len(internalData) = 1
    /\ "amount" \notin DOMAIN internalData[1]
    /\ providerData = <<>>
    /\ results.internal_only = internalData
    /\ results.matched = <<>>
    /\ results.mismatched = <<>>
    /\ results.provider_only = <<>>

\* how many entries of the four categories are of a key
Occurrences(k) ==
    RecordsOf(results.matched, k) + RecordsOf(results.mismatched, k)
        + RowsOf(results.internal_only, k) + RowsOf(results.provider_only, k)

IndexedKeys == MapKeys(internalMap) \cup MapKeys(providerMap)

\* C13: the four categories partition the keys: every key of the union of the
\* two indexes is in exactly one category, exactly once, and the categories
\* hold no other key; a key of both indexes is never in internal_only or
\* provider_only, a key of one index only is never in matched or mismatched.
C13_CategoriesPartitionKeys ==
    Returned =>
        /\ \A k \in IndexedKeys : Occurrences(k) = 1
        /\ RecordKeys(results.matched) \cup RecordKeys(results.mismatched)
              \cup KeysOf(results.internal_only) \cup KeysOf(results.provider_only)
                  = IndexedKeys
        /\ \A k \in SharedKeys :
              /\ RowsOf(results.internal_only, k) = 0
              /\ RowsOf(results.provider_only, k) = 0
        /\ \A k \in IndexedKeys \ SharedKeys :
              /\ RecordsOf(results.matched, k) = 0
              /\ RecordsOf(results.mismatched, k) = 0
        /\ \A k \in MapKeys(internalMap) \ SharedKeys :
              RowsOf(results.provider_only, k) = 0
        /\ \A k \in MapKeys(providerMap) \ SharedKeys :
              RowsOf(results.internal_only, k) = 0

\* a key of both indexes that several internal rows have, a key of the
\* internal index only and a key of the provider's only
C13_Witness ==
    /\ Returned
    /\ SharedKeys # {}
    /\ MapKeys(internalMap) \ MapKeys(providerMap) # {}
    /\ MapKeys(providerMap) \ MapKeys(internalMap) # {}
    /\ Len(internalData) > Len(internalMap)
    /\ \E k \in SharedKeys : RecordsOf(results.matched, k) = 1

\* a file of at least two lines that are not blank
EnoughLines(file) == Len(NonBlankLines(file.text)) >= 2

\* the rows of a file that parses
Parsed(file) == parseCSV(file).data

\* the messages of a run that fails after its start
FailureMessages ==
    {"CSV file must have at least a header and one data row",
     "Failed to read file",
     "One or both CSV files are empty"}

ErrorShown(p) == p.errorSection = "block" /\ p.errorMessage \in FailureMessages

\* run r ends in this step
Ends(r) == Under(r) /\ ~Under(r)'

\* run r has parsed both its files, to rows on both sides, and
\* reconcileTransactions is called on these rows in this step
CalledFor(r) ==
    /\ runs[r].at = "provider"
    /\ EnoughLines(runs[r].internalFile)
    /\ EnoughLines(runs[r].providerFile)
    /\ runs[r].internalData = Parsed(runs[r].internalFile)
    /\ Len(Parsed(runs[r].internalFile)) > 0
    /\ Len(Parsed(runs[r].providerFile)) > 0
    /\ internalData' = Parsed(runs[r].internalFile)
    /\ providerData' = Parsed(runs[r].providerFile)

\* both files of run r have enough lines and give rows
BothGood(r) ==
    /\ EnoughLines(runs[r].internalFile)
    /\ EnoughLines(runs[r].providerFile)
    /\ Len(Parsed(runs[r].internalFile)) > 0
    /\ Len(Parsed(runs[r].providerFile)) > 0

\* C12: reconcileTransactions is called only by a run that has parsed both
\* its files, each of at least two lines that are not blank, to sequences
\* that are not empty, and on these sequences; a run whose parse fails or
\* that has a sequence of no row ends with an error message shown and with
\* no call; the read of the provider file is started only when the internal
\* file has been parsed.
C12_CalledOnlyAfterBothParsed ==
    [][ /\ last'.called => \E r \in Runs : Ends(r) /\ CalledFor(r)
        /\ (pc' # pc \/ results' # results \/ internalMap' # internalMap
               \/ providerMap' # providerMap) => last'.called
        /\ \A r \in Runs :
              /\ Ends(r) /\ ~last'.called => ErrorShown(page')
              /\ Ends(r) /\ ~BothGood(r) => ~last'.called /\ ErrorShown(page')
              /\ runs'[r].at = "provider" /\ runs[r].at # "provider" =>
                    /\ runs[r].at = "internal"
                    /\ EnoughLines(runs[r].internalFile)
                    /\ runs'[r].internalData = Parsed(runs[r].internalFile)
      ]_vars

\* a run on an internal file without rows has ended with its message, after a
\* run that called reconcileTransactions
C12_Witness ==
    /\ pc = "returned"
    /\ ~last.called
    /\ page.errorSection = "block"
    /\ page.errorMessage = "One or both CSV files are empty"
    /\ \A r \in Runs : ~Under(r)

\* the Result of a run on the files of run r
ResultFor(r) ==
    Reconcile(Parsed(runs[r].internalFile), Parsed(runs[r].providerFile)).results

\* C14: currentResults is null until a run has completed with success, and
\* from then on the Result of the last run that did: a run that completes
\* with success sets it to its Result, and no other step changes it, not a
\* submission with a file missing, nor a run that ends on a parse failure or
\* on an empty sequence, nor an export; and a download is made only of a
\* category, one of the four, of which currentResults has entries.
C14_CurrentResultsOfLastSuccess ==
    /\ [](/\ currentResults = Null <=> pc = "none"
          /\ currentResults # Null => IsResult(currentResults)
          /\ last.download # "none" =>
                /\ currentResults # Null
                /\ last.download \in Categories
                /\ Len(currentResults[last.download]) > 0)
    /\ [][ /\ \A r \in Runs :
                 Ends(r) => currentResults' = IF last'.called /\ BothGood(r)
                                              THEN ResultFor(r)
                                              ELSE currentResults
           /\ (\A r \in Runs : ~Ends(r)) => currentResults' = currentResults
         ]_vars

\* after a run that was a success, a run has ended on a read that failed,
\* and a category was exported
C14_Witness ==
    /\ currentResults # Null
    /\ last.download = "provider_only"
    /\ page.errorSection = "block"
    /\ page.errorMessage = "Failed to read file"
    /\ page.resultsSection = "none"

\* C15: the error section and the results section are never both visible,
\* whatever submissions, with files or with one missing, and whatever runs,
\* one after the other or overlapping, came before.
C15_ErrorAndResultsNeverBoth ==
    ~(page.errorSection = "block" /\ page.resultsSection = "block")

LoadingOn == page.loadingSection = "block" /\ page.disabled

LoadingOff == page.loadingSection = "none" /\ ~page.disabled

\* C16: when every read that was started ends, with load or with error, every
\* run that has turned loading on and disabled the button comes to its end,
\* with loading off and the button enabled; and as long as a run that is the
\* only one under way awaits the parsing of a file, loading is on and the
\* button is disabled.
C16_LoadingEndsWithTheRun ==
    /\ \A r \in Runs : Under(r) ~> (~Under(r) /\ LoadingOff)
    /\ [](\A r \in Runs : Under(r) /\ runs[r].alone => LoadingOn)

\* a run that is the only one under way awaits the read of its provider
\* file, with loading on, after a run that ended on a read that failed
C16_Witness ==
    /\ \E r \in Runs : runs[r].at = "provider" /\ runs[r].alone
    /\ LoadingOn
    /\ page.errorSection = "none"
    /\ page.errorMessage = "Failed to read file"

=============================================================================
